---- MODULE Spec2Model ----
(***************************************************************************)
(* A model of auto_uw: the rating engine, the reply parser and the quote   *)
(* operations of auto_uw/agent.py, the parser of auto_uw/claude_context.py *)
(* and the flat-file document store of auto_uw/document_store.py, alone,   *)
(* on a file system that fails, and shared by two threads.                 *)
(*                                                                         *)
(* Money and factors are fixed-point integers: a factor is held in tenths  *)
(* (0.8 is 8), a premium in 1/10000 of a dollar (the product of a base     *)
(* rate in dollars and four factors in tenths).                            *)
(***************************************************************************)
EXTENDS Integers, Sequences, FiniteSets, TLC

VARIABLES
    policy_request, \* the PolicyRequest submitted to the agent
    quote,      \* outcome of the last rating-engine / quote operation
    documents,  \* DocumentStore.documents: the in-memory cache, doc_id -> document
    files,      \* the docs_dir directory: file stem -> content of <stem>.json
    result,     \* outcome of the last document-store call (or write by another program)
    response,   \* response.content[0].text: the model reply handed to the parser
    threads,    \* the calls in progress on one shared store, and what they saw
    reports     \* the reports directory: file name -> the quotes whose report was written to it

vars == <<policy_request, quote, documents, files, result, response, threads, reports>>

(***************************************************************************)
(* Bounds of the model.                                                    *)
(***************************************************************************)
MaxClaims == 3

\* datetime.now() reads one of the instants 1 .. MaxClock
MaxClock == 2

(***************************************************************************)
(* Inputs of the rating engine.                                            *)
(***************************************************************************)
BusinessTypes ==
    {"restaurant", "Restaurant", "retail", "manufacturing", "construction",
     "professional_services", "bakery"}

RevenueValues ==
    {499999, 500000, 750000, 999999, 1000000, 1999999, 2000000, 2000001}

EmployeeCounts == {9, 10, 25, 50}

YearsValues == {1, 2, 3, 5, 10}

\* A claim is a dict; only its amount is read by the rating engine.
ClaimDicts == {[amount |-> 1000], [amount |-> 4999], [amount |-> 5000]}

RECURSIVE SeqsUpTo(_, _)
SeqsUpTo(S, n) ==
    IF n = 0 THEN {<<>>}
    ELSE LET shorter == SeqsUpTo(S, n - 1)
         IN  shorter \cup {Append(s, x) : s \in {t \in shorter : Len(t) = n - 1}, x \in S}

ClaimsHistories == SeqsUpTo(ClaimDicts, MaxClaims)

PolicyRequest ==
    [business_type : BusinessTypes,
     annual_revenue : RevenueValues,
     employee_count : EmployeeCounts,
     years_in_business : YearsValues,
     claims_history : ClaimsHistories]

\* The end-to-end scenario: a restaurant with one claim of 5000.
Scenario ==
    [business_type |-> "restaurant", annual_revenue |-> 750000,
     employee_count |-> 25, years_in_business |-> 5,
     claims_history |-> <<[amount |-> 5000]>>]

\* The analysis dict parsed from the model reply: risk_profile may be any
\* string the model wrote, or be missing.
Analyses ==
    {[risk_profile |-> "low"], [risk_profile |-> "medium"],
     [risk_profile |-> "high"], [risk_profile |-> "extreme"],
     [risk_factors |-> "none"]}

(***************************************************************************)
(* The rating engine: pure functions.                                      *)
(***************************************************************************)
\* str.lower() on the business types of the model.
lower(s) ==
    IF s = "Restaurant" THEN "restaurant"
    ELSE IF s = "High" THEN "high"
    ELSE IF s = "MANUFACTURING" THEN "manufacturing"
    ELSE s

\* dict.get(key, default)
Get(d, key, default) == IF key \in DOMAIN d THEN d[key] ELSE default

base_rates ==
    [restaurant |-> 5000, retail |-> 4000, manufacturing |-> 8000,
     construction |-> 10000, professional_services |-> 3000]

_calculate_base_rate(business_type) == Get(base_rates, lower(business_type), 5000)

_calculate_revenue_factor_strict(annual_revenue) ==
    IF annual_revenue <= 500000 THEN 8
    ELSE IF annual_revenue <= 1000000 THEN 10
    ELSE IF annual_revenue <= 2000000 THEN 12
    ELSE 15

_calculate_revenue_factor(annual_revenue) ==
    IF annual_revenue < 500000 THEN 8
    ELSE IF annual_revenue < 1000000 THEN 10
    ELSE IF annual_revenue < 2000000 THEN 12
    ELSE 15

_calculate_employee_factor_strict(employee_count) ==
    IF employee_count <= 10 THEN 8
    ELSE IF employee_count <= 25 THEN 10
    ELSE IF employee_count <= 50 THEN 12
    ELSE 15

_calculate_employee_factor(employee_count) ==
    IF employee_count < 10 THEN 8
    ELSE IF employee_count < 25 THEN 10
    ELSE IF employee_count < 50 THEN 12
    ELSE 15

RECURSIVE SumAmounts(_)
SumAmounts(claims_history) ==
    IF claims_history = <<>> THEN 0
    ELSE Get(Head(claims_history), "amount", 0) + SumAmounts(Tail(claims_history))

_calculate_claims_factor_by_amount(claims_history) ==
    IF claims_history = <<>> THEN 9
    ELSE IF SumAmounts(claims_history) < 5000 THEN 11
    ELSE IF Len(claims_history) = 1 THEN 12
    ELSE IF Len(claims_history) = 2 THEN 13
    ELSE 15

_calculate_claims_factor(claims_history) ==
    IF claims_history = <<>> THEN 9
    ELSE LET total_claims == Len(claims_history)
             total_amount == SumAmounts(claims_history)
         IN  IF total_claims = 1 /\ total_amount < 5000 THEN 11
             ELSE IF total_claims = 1 THEN 12
             ELSE IF total_claims = 2 THEN 13
             ELSE 15

_calculate_years_factor(years_in_business) ==
    IF years_in_business < 2 THEN 12
    ELSE IF years_in_business < 5 THEN 11
    ELSE IF years_in_business < 10 THEN 10
    ELSE 9

\* The locals of _calculate_premium, in tenths.
Breakdown(request) ==
    [base_rate |-> _calculate_base_rate(request.business_type),
     revenue_factor |-> _calculate_revenue_factor(request.annual_revenue),
     employee_factor |-> _calculate_employee_factor(request.employee_count),
     claims_factor |-> _calculate_claims_factor(request.claims_history),
     years_factor |-> _calculate_years_factor(request.years_in_business)]

\* A rating that forgets the years factor (held at 1.0).
_calculate_premium_no_years(request) ==
    LET b == Breakdown(request)
    IN  b.base_rate * b.revenue_factor * b.employee_factor * b.claims_factor * 10

\* in 1/10000 dollar
_calculate_premium(request) ==
    LET b == Breakdown(request)
    IN  b.base_rate * b.revenue_factor * b.employee_factor * b.claims_factor
            * b.years_factor

risk_factors == [low |-> 8, medium |-> 10, high |-> 15]

\* in 1/1000: a risk factor in tenths, times 1.2 and 1.1 held as 12/10 and 11/10
_calculate_adjustment_factor(request, analysis) ==
    LET factor == Get(risk_factors, Get(analysis, "risk_profile", "medium"), 10)
        claims == IF request.claims_history # <<>> THEN 12 ELSE 10
        years == IF request.years_in_business < 3 THEN 11 ELSE 10
    IN  factor * claims * years

(***************************************************************************)
(* Operations of the agent.                                                *)
(***************************************************************************)
NoQuote == [op |-> "none"]

\* _generate_report raises when the report cannot be written, and (through
\* _determine_conditions) when the analysis has no risk_profile.
_generate_report(analysis, fs) ==
    IF fs # "ok" THEN "OSError"
    ELSE IF "risk_profile" \notin DOMAIN analysis THEN "KeyError"
    ELSE "ok"

CalculatePremium ==
        /\ quote = NoQuote
        /\ quote' = [op |-> "_calculate_premium",
                     breakdown |-> Breakdown(policy_request),
                     premium |-> _calculate_premium(policy_request)]
        /\ UNCHANGED <<policy_request, documents, files, result, response, threads, reports>>

\* premium_estimate of process_policy_request, in 1/10000 dollar
ProcessPremium(request, analysis) ==
    _calculate_base_rate(request.business_type)
        * _calculate_adjustment_factor(request, analysis) * 10

ProcessPolicyRequest ==
    \E api \in {"ok", "raise"},
       json_ok \in BOOLEAN, parsed \in Analyses, fs \in {"ok", "oserror"} :
        /\ quote = NoQuote
        /\ quote' =
             IF api # "ok" THEN
                 [op |-> "process_policy_request", status |-> "APIError"]
             ELSE IF ~json_ok THEN
                 [op |-> "process_policy_request", status |-> "ValueError"]
             ELSE IF _generate_report(parsed, fs) # "ok" THEN
                 [op |-> "process_policy_request", status |-> _generate_report(parsed, fs)]
             ELSE
                 [op |-> "process_policy_request", status |-> "ok",
                  premium_estimate |-> ProcessPremium(policy_request, parsed),
                  risk_profile |-> Get(parsed, "risk_profile", "unknown")]
        /\ UNCHANGED <<policy_request, documents, files, result, response, threads, reports>>

(***************************************************************************)
(* The document store.                                                     *)
(*                                                                         *)
(* A Python value whose class the code tests (the metadata argument) is    *)
(* held with its class: [class |-> "dict", value |-> ...].  Strings are    *)
(* TLA+ strings; Chars gives the characters of the ones that are searched. *)
(***************************************************************************)
EmptyDict == [x \in {} |-> x]

Put(d, k, v) == [x \in DOMAIN d \cup {k} |-> IF x = k THEN v ELSE d[x]]

Del(d, k) == [x \in DOMAIN d \ {k} |-> d[x]]

DocIds == {"a", "b"}

Dict(d) == [class |-> "dict", value |-> d]

MetadataDicts == {Dict(EmptyDict), Dict([type |-> "policy"])}

NotADict == [class |-> "list", value |-> EmptyDict]

Times == 1 .. MaxClock

\* What the file system does to a call's write or unlink: "ok", or a failure
\* ("open_fails", "dump_fails").  Here it does what it is asked.
IoWorks == {"ok"}

\* A file that json.load cannot parse.
CorruptFile == [corrupt |-> TRUE]

\* The arguments of add_document: valid ones, and ones with one bad field.
AddArgs ==
    [doc_id : DocIds, title : {"T1"}, content : {"Ab"}, metadata : MetadataDicts]
    \cup {[doc_id |-> "", title |-> "T1", content |-> "Ab", metadata |-> Dict(EmptyDict)],
          [doc_id |-> "a", title |-> "", content |-> "Ab", metadata |-> Dict(EmptyDict)],
          [doc_id |-> "a", title |-> "T1", content |-> "", metadata |-> Dict(EmptyDict)],
          [doc_id |-> "a", title |-> "T1", content |-> "Ab", metadata |-> NotADict],
          [doc_id |-> "", title |-> "", content |-> "", metadata |-> NotADict]}

\* The keyword arguments of update_document.
UpdateKwargs ==
    {[content |-> "b"], [id |-> "b"], [author |-> "x"],
     [content |-> "b", author |-> "x"], [last_updated |-> 0]}

Queries == {"AB", "ty"}

Chars(s) ==
    CASE s = "Ab" -> <<"A", "b">>
      [] s = "AB" -> <<"A", "B">>
      [] s = "b" -> <<"b">>
      [] s = "ty" -> <<"t", "y">>
      [] s = "type" -> <<"t", "y", "p", "e">>
      [] s = "policy" -> <<"p", "o", "l", "i", "c", "y">>
      [] s = "" -> <<>>

\* str.lower(), character by character
LowerChar(c) ==
    CASE c = "A" -> "a"
      [] c = "B" -> "b"
      [] OTHER -> c

Lower(text) == [i \in 1 .. Len(text) |-> LowerChar(text[i])]

\* the Python operator `query in text`
Contains(text, query) ==
    \E i \in 1 .. Len(text) + 1 :
        /\ i + Len(query) - 1 <= Len(text)
        /\ SubSeq(text, i, i + Len(query) - 1) = query

\* json.dumps of a metadata dict of at most one string item
json_dumps(d) ==
    IF DOMAIN d = {} THEN <<"{", "}">>
    ELSE LET k == CHOOSE k \in DOMAIN d : TRUE
         IN  <<"{", "\"">> \o Chars(k) \o <<"\"", ":", " ", "\"">>
                 \o Chars(d[k]) \o <<"\"", "}">>

\* A document whose type is always the default.
NewDocument_default_type(doc_id, title, content, metadata, t) ==
    [id |-> doc_id,
     title |-> title,
     content |-> content,
     metadata |-> metadata,
     type |-> "document",
     last_updated |-> t,
     applicable_states |-> Get(metadata.value, "applicable_states", <<"all">>)]

\* the document add_document builds
NewDocument(doc_id, title, content, metadata, t) ==
    [id |-> doc_id,
     title |-> title,
     content |-> content,
     metadata |-> metadata,
     type |-> Get(metadata.value, "type", "document"),
     last_updated |-> t,
     applicable_states |-> Get(metadata.value, "applicable_states", <<"all">>)]

\* The directory after open(doc_path, 'w') and json.dump(doc, f): open truncates
\* the file, so a dump that fails leaves a file that is not JSON.
WriteFile(dir, stem, doc, io) ==
    CASE io = "ok" -> Put(dir, stem, doc)
      [] io = "dump_fails" -> Put(dir, stem, CorruptFile)
      [] io = "open_fails" -> dir

\* Validation that forgets the class of metadata.
add_document_error_any_metadata(args) ==
    IF args.doc_id = "" THEN "ValueError"
    ELSE IF args.title = "" THEN "ValueError"
    ELSE IF args.content = "" THEN "ValueError"
    ELSE "ok"

\* The ValueError checks add_document starts with.
add_document_error(args) ==
    IF args.doc_id = "" THEN "ValueError"
    ELSE IF args.title = "" THEN "ValueError"
    ELSE IF args.content = "" THEN "ValueError"
    ELSE IF args.metadata.class # "dict" THEN "ValueError"
    ELSE "ok"

Raised(call, status, io) == call @@ [status |-> status, io |-> io]

\* A cache that takes the document whether or not it was written.
add_document_cache_unwritten(docs, doc_id, doc, io) == Put(docs, doc_id, doc)

\* The cache after the write of add_document: the assignment to
\* self.documents follows the with-block, so a write that raises skips it.
add_document_cache(docs, doc_id, doc, io) ==
    IF io = "ok" THEN Put(docs, doc_id, doc) ELSE docs

\* add_document, for arguments from ArgSet on a file system that does one of
\* IoSet to the write.
AddDocumentWith(ArgSet, IoSet) ==
    \E args \in ArgSet, t \in Times, io \in IoSet :
        LET doc == NewDocument(args.doc_id, args.title, args.content, args.metadata, t)
            call == [op |-> "add_document", doc_id |-> args.doc_id, args |-> args,
                     existed |-> args.doc_id \in DOMAIN documents]
        IN  /\ UNCHANGED <<policy_request, quote, response, threads, reports>>
            /\ IF add_document_error(args) # "ok" THEN
                   /\ result' = Raised(call, add_document_error(args), "none")
                   /\ UNCHANGED <<documents, files>>
               ELSE
                   /\ files' = WriteFile(files, args.doc_id, doc, io)
                   /\ documents' = add_document_cache(documents, args.doc_id, doc, io)
                   /\ result' = Raised(call, IF io = "ok" THEN "ok" ELSE "OSError", io)

AddDocument == AddDocumentWith(AddArgs, IoWorks)

\* A lookup that answers a miss with an empty document.
get_document_or_empty(docs, doc_id) ==
    IF doc_id \notin DOMAIN docs
    THEN [status |-> "ok", value |-> EmptyDict]
    ELSE [status |-> "ok", value |-> docs[doc_id]]

get_document(docs, doc_id) ==
    IF doc_id \notin DOMAIN docs
    THEN [status |-> "FileNotFoundError"]
    ELSE [status |-> "ok", value |-> docs[doc_id]]

GetDocument ==
    \E doc_id \in DocIds :
        /\ result' = [op |-> "get_document", doc_id |-> doc_id]
                        @@ get_document(documents, doc_id)
        /\ UNCHANGED <<policy_request, quote, documents, files, response, threads, reports>>

\* list(self.documents.values()), held with the keys; the order of the list is
\* not modelled.
list_documents(docs) == docs

ListDocuments ==
    /\ result' = [op |-> "list_documents", status |-> "ok",
                  value |-> list_documents(documents)]
    /\ UNCHANGED <<policy_request, quote, documents, files, response, threads, reports>>

\* A loop that tests the metadata whatever search_metadata says.
search_appends_any_metadata(doc, q, search_metadata) ==
    IF Contains(Lower(Chars(doc.content)), q) THEN 1
    ELSE IF Contains(Lower(json_dumps(doc.metadata.value)), q) THEN 1
    ELSE 0

\* How many times one pass of the loop of search_documents appends doc to
\* results: after a content match it continues with the next document.
search_appends(doc, q, search_metadata) ==
    IF Contains(Lower(Chars(doc.content)), q) THEN 1
    ELSE IF search_metadata /\ Contains(Lower(json_dumps(doc.metadata.value)), q) THEN 1
    ELSE 0

\* The documents search_documents returns, held with their keys.
search_documents(docs, query, search_metadata) ==
    LET q == Lower(Chars(query))
        found == {k \in DOMAIN docs : search_appends(docs[k], q, search_metadata) > 0}
    IN  [k \in found |-> docs[k]]

\* search_documents for a query from QuerySet; times is how often each cached
\* document occurs in the returned list.
SearchDocumentsWith(QuerySet) ==
    \E query \in QuerySet, search_metadata \in BOOLEAN :
        /\ result' = [op |-> "search_documents", query |-> query,
                      search_metadata |-> search_metadata, status |-> "ok",
                      value |-> search_documents(documents, query, search_metadata),
                      times |-> [k \in DOMAIN documents |->
                                    search_appends(documents[k], Lower(Chars(query)),
                                                   search_metadata)]]
        /\ UNCHANGED <<policy_request, quote, documents, files, response, threads, reports>>

SearchDocuments == SearchDocumentsWith(Queries)

\* doc_path.unlink(): raises when the file is missing or cannot be removed.
unlink_error(dir, stem, io) ==
    IF stem \notin DOMAIN dir THEN "FileNotFoundError"
    ELSE IF io # "ok" THEN "OSError"
    ELSE "ok"

DeleteDocument ==
    \E doc_id \in DocIds, io \in IoWorks :
        LET call == [op |-> "delete_document", doc_id |-> doc_id,
                     existed |-> doc_id \in DOMAIN documents]
        IN  /\ UNCHANGED <<policy_request, quote, response, threads, reports>>
            /\ IF doc_id \notin DOMAIN documents THEN
                   /\ result' = Raised(call, "FileNotFoundError", "none")
                   /\ UNCHANGED <<documents, files>>
               ELSE IF unlink_error(files, doc_id, io) # "ok" THEN
                   /\ result' = Raised(call, unlink_error(files, doc_id, io), io)
                   /\ UNCHANGED <<documents, files>>
               ELSE
                   /\ files' = Del(files, doc_id)
                   /\ documents' = Del(documents, doc_id)
                   /\ result' = Raised(call, "ok", io)

\* An update that also adds the keys the document does not have.
Updated_adding_keys(doc, kwargs, t) ==
    [key \in DOMAIN doc \cup DOMAIN kwargs |->
        IF key = "last_updated" THEN t
        ELSE IF key \in DOMAIN kwargs THEN kwargs[key]
        ELSE doc[key]]

\* The loop of update_document over kwargs, then the refresh of last_updated.
Updated(doc, kwargs, t) ==
    [key \in DOMAIN doc |->
        IF key = "last_updated" THEN t
        ELSE IF key \in DOMAIN kwargs THEN kwargs[key]
        ELSE doc[key]]

\* update_document, for keyword arguments from KwargSet on a file system that
\* does one of IoSet to the write.
UpdateDocumentWith(KwargSet, IoSet) ==
    \E doc_id \in DocIds, kwargs \in KwargSet, t \in Times, io \in IoSet :
        LET call == [op |-> "update_document", doc_id |-> doc_id, kwargs |-> kwargs,
                     existed |-> doc_id \in DOMAIN documents]
        IN  /\ UNCHANGED <<policy_request, quote, response, threads, reports>>
            /\ IF get_document(documents, doc_id).status # "ok" THEN
                   /\ result' = Raised(call, get_document(documents, doc_id).status, "none")
                   /\ UNCHANGED <<documents, files>>
               ELSE
                   LET doc == Updated(get_document(documents, doc_id).value, kwargs, t)
                   IN  \* doc is the cached dict itself: it is changed in place
                       \* before the file is written
                       /\ documents' = Put(documents, doc_id, doc)
                       /\ files' = WriteFile(files, doc_id, doc, io)
                       /\ result' = Raised(call, IF io = "ok" THEN "ok" ELSE "OSError", io)
                                      @@ [now |-> t]

UpdateDocument == UpdateDocumentWith(UpdateKwargs, IoWorks)

\* The caches _load_documents can build from a directory: each readable file is
\* stored under its document's id, in the directory's listing order, so of
\* several files with the same id the last one listed stays.
_load_documents(dir) ==
    LET readable == {stem \in DOMAIN dir : dir[stem] # CorruptFile}
        ids == {dir[stem].id : stem \in readable}
    IN  {docs \in [ids -> {dir[stem] : stem \in readable}] :
            \A id \in ids : docs[id].id = id}

\* DocumentStore.__init__ on the same directory: a new store object.
OpenStore ==
    /\ documents' \in _load_documents(files)
    /\ result' = [op |-> "__init__", status |-> "ok"]
    /\ UNCHANGED <<policy_request, quote, files, response, threads, reports>>

\* Queries with the empty string, which every text contains.
SearchQueries == Queries \cup {""}

SearchArgs == {args \in AddArgs : add_document_error(args) = "ok"}

SearchKwargs == {[content |-> "b"]}

AddDocumentSearched == AddDocumentWith(SearchArgs, IoWorks)

UpdateDocumentSearched == UpdateDocumentWith(SearchKwargs, IoWorks)

SearchDocumentsAny == SearchDocumentsWith(SearchQueries)

\* What the file system can do to a write.
IoFaults == {"ok", "open_fails", "dump_fails"}

FaultAddArgs ==
    [doc_id : DocIds, title : {"T1"}, content : {"Ab"}, metadata : {Dict(EmptyDict)}]

FaultUpdateKwargs == {[content |-> "b"], [id |-> "b"]}

AddDocumentFaulty == AddDocumentWith(FaultAddArgs, IoFaults)

UpdateDocumentFaulty == UpdateDocumentWith(FaultUpdateKwargs, IoFaults)

\* Something outside the store writes a file that is not JSON into docs_dir
\* (tests/test_document_store.py writes invalid.json).
CorruptFileAppears ==
    \E stem \in DocIds :
        /\ files' = Put(files, stem, CorruptFile)
        /\ result' = [op |-> "external_write", doc_id |-> stem]
        /\ UNCHANGED <<policy_request, quote, documents, response, threads, reports>>

(***************************************************************************)
(* Two threads on one store.  The class holds no lock, so a call of one    *)
(* thread advances statement by statement between the statements of the    *)
(* other.  The writer makes one add, update or delete; the reader one get,  *)
(* list or search.                                                         *)
(***************************************************************************)
StoredDocument(doc_id) == NewDocument(doc_id, "T1", "Ab", Dict(EmptyDict), 1)

\* The directories the shared store is opened on.
InitialDirs ==
    {[a |-> StoredDocument("a")],
     [a |-> StoredDocument("a"), b |-> StoredDocument("b")]}

\* update_document(doc_id, title="T2", content="b"): kwargs.items() yields the
\* keys in the order of the call.
ThreadKwargs == [title |-> "T2", content |-> "b"]

ThreadKwargsOrder == <<"title", "content">>

ThreadAddArgs ==
    [title |-> "T1", content |-> "Ab", metadata |-> Dict([type |-> "policy"])]

\* the order in which a dict of these keys is iterated
KeyOrder(keys) ==
    (IF "a" \in keys THEN <<"a">> ELSE <<>>) \o (IF "b" \in keys THEN <<"b">> ELSE <<>>)

\* The cache the writer's call leaves when nothing runs during it.
WriterAfter(op, doc_id, t) ==
    CASE op = "add_document" ->
             Put(documents, doc_id,
                 NewDocument(doc_id, ThreadAddArgs.title, ThreadAddArgs.content,
                             ThreadAddArgs.metadata, t))
      [] op = "update_document" ->
             IF doc_id \in DOMAIN documents
             THEN Put(documents, doc_id, Updated(documents[doc_id], ThreadKwargs, t))
             ELSE documents
      [] op = "delete_document" -> Del(documents, doc_id)

WriterAt(pc) == threads.writer.pc = pc

WriterGoes(pc) == threads' = [threads EXCEPT !.writer.pc = pc]

\* The writer enters add_document (its arguments are valid), update_document
\* or delete_document.
WriterCalls ==
    \E op \in {"add_document", "update_document", "delete_document"},
       doc_id \in DocIds, t \in Times :
        /\ WriterAt("idle")
        /\ threads' = [threads EXCEPT !.writer =
               [pc |-> op, op |-> op, doc_id |-> doc_id, t |-> t,
                todo |-> ThreadKwargsOrder,
                before |-> documents, after |-> WriterAfter(op, doc_id, t)]]
        /\ UNCHANGED <<policy_request, quote, documents, files, result, response, reports>>

\* add_document: with open(doc_path, 'w') as f: json.dump(doc, f, indent=2)
AddWrites ==
    LET w == threads.writer
    IN  /\ WriterAt("add_document")
        /\ files' = WriteFile(files, w.doc_id,
                              NewDocument(w.doc_id, ThreadAddArgs.title,
                                          ThreadAddArgs.content, ThreadAddArgs.metadata, w.t),
                              "ok")
        /\ WriterGoes("add_document:cache")
        /\ UNCHANGED <<policy_request, quote, documents, result, response, reports>>

\* add_document: self.documents[doc_id] = doc
AddCaches ==
    LET w == threads.writer
    IN  /\ WriterAt("add_document:cache")
        /\ documents' = Put(documents, w.doc_id, files[w.doc_id])
        /\ WriterGoes("done")
        /\ UNCHANGED <<policy_request, quote, files, result, response, reports>>

\* update_document: doc = self.get_document(doc_id)
UpdateLooksUp ==
    LET w == threads.writer
    IN  /\ WriterAt("update_document")
        /\ WriterGoes(IF get_document(documents, w.doc_id).status = "ok"
                      THEN "update_document:fields" ELSE "done")
        /\ UNCHANGED <<policy_request, quote, documents, files, result, response, reports>>

\* update_document: one turn of the loop, doc[key] = value on the cached dict
UpdateSetsField ==
    LET w == threads.writer
        key == Head(w.todo)
        doc == documents[w.doc_id]
    IN  /\ WriterAt("update_document:fields")
        /\ w.todo # <<>>
        /\ documents' = IF key \in DOMAIN doc
                        THEN Put(documents, w.doc_id, [doc EXCEPT ![key] = ThreadKwargs[key]])
                        ELSE documents
        /\ threads' = [threads EXCEPT !.writer.todo = Tail(w.todo)]
        /\ UNCHANGED <<policy_request, quote, files, result, response, reports>>

\* update_document: doc["last_updated"] = datetime.now().isoformat()
UpdateStamps ==
    LET w == threads.writer
    IN  /\ WriterAt("update_document:fields")
        /\ w.todo = <<>>
        /\ documents' = Put(documents, w.doc_id,
                            [documents[w.doc_id] EXCEPT !.last_updated = w.t])
        /\ WriterGoes("update_document:write")
        /\ UNCHANGED <<policy_request, quote, files, result, response, reports>>

\* update_document: the write of the file; the assignment to the cache that
\* follows stores the dict that is already there.
UpdateWrites ==
    LET w == threads.writer
    IN  /\ WriterAt("update_document:write")
        /\ files' = WriteFile(files, w.doc_id, documents[w.doc_id], "ok")
        /\ WriterGoes("done")
        /\ UNCHANGED <<policy_request, quote, documents, result, response, reports>>

\* delete_document: if doc_id not in self.documents: raise
DeleteChecks ==
    LET w == threads.writer
    IN  /\ WriterAt("delete_document")
        /\ WriterGoes(IF w.doc_id \in DOMAIN documents
                      THEN "delete_document:unlink" ELSE "done")
        /\ UNCHANGED <<policy_request, quote, documents, files, result, response, reports>>

\* delete_document: doc_path.unlink()
DeleteUnlinks ==
    LET w == threads.writer
    IN  /\ WriterAt("delete_document:unlink")
        /\ files' = Del(files, w.doc_id)
        /\ WriterGoes("delete_document:del")
        /\ UNCHANGED <<policy_request, quote, documents, result, response, reports>>

\* delete_document: del self.documents[doc_id]
DeleteForgets ==
    LET w == threads.writer
    IN  /\ WriterAt("delete_document:del")
        /\ documents' = Del(documents, w.doc_id)
        /\ WriterGoes("done")
        /\ UNCHANGED <<policy_request, quote, files, result, response, reports>>

ReaderAt(pc) == threads.reader.pc = pc

\* What a call of the reader returns from a cache that does not change
\* during the call.
ReaderView(r, docs) ==
    CASE r.op = "get_document" -> get_document(docs, r.doc_id)
      [] r.op = "list_documents" -> [status |-> "ok", value |-> list_documents(docs)]
      [] r.op = "search_documents" ->
             [status |-> "ok",
              value |-> search_documents(docs, r.query, r.search_metadata)]

\* get_document: one lookup in the dict; the caller is handed the cached dict.
ReaderGets ==
    \E doc_id \in DocIds :
        /\ ReaderAt("idle")
        /\ threads' = [threads EXCEPT !.reader =
               [pc |-> "done", op |-> "get_document", doc_id |-> doc_id,
                seen |-> get_document(documents, doc_id)]]
        /\ UNCHANGED <<policy_request, quote, documents, files, result, response, reports>>

\* list_documents: list(self.documents.values()), one call into the dict
ReaderLists ==
    /\ ReaderAt("idle")
    /\ threads' = [threads EXCEPT !.reader =
           [pc |-> "done", op |-> "list_documents",
            seen |-> [status |-> "ok", value |-> list_documents(documents)]]]
    /\ UNCHANGED <<policy_request, quote, documents, files, result, response, reports>>

\* search_documents: the for statement takes an iterator over
\* self.documents.values(), which remembers the size of the dict.
ReaderStartsSearch ==
    \E query \in Queries, search_metadata \in BOOLEAN :
        /\ ReaderAt("idle")
        /\ threads' = [threads EXCEPT !.reader =
               [pc |-> "search_documents", op |-> "search_documents",
                query |-> query, search_metadata |-> search_metadata,
                size |-> Cardinality(DOMAIN documents),
                todo |-> KeyOrder(DOMAIN documents),
                found |-> EmptyDict]]
        /\ UNCHANGED <<policy_request, quote, documents, files, result, response, reports>>

\* search_documents: one turn of the loop.  The iterator raises RuntimeError
\* (dictionary changed size during iteration) when the dict has another size
\* than at its creation; at its end the results are returned.
ReaderSearchNext ==
    LET r == threads.reader
    IN  /\ ReaderAt("search_documents")
        /\ threads' = [threads EXCEPT !.reader =
               IF Cardinality(DOMAIN documents) # r.size THEN
                   [pc |-> "done", op |-> r.op, query |-> r.query,
                    search_metadata |-> r.search_metadata,
                    seen |-> [status |-> "RuntimeError"]]
               ELSE IF r.todo = <<>> THEN
                   [pc |-> "done", op |-> r.op, query |-> r.query,
                    search_metadata |-> r.search_metadata,
                    seen |-> [status |-> "ok", value |-> r.found]]
               ELSE
                   LET k == Head(r.todo)
                       doc == documents[k]
                   IN  [r EXCEPT !.todo = Tail(r.todo),
                                 !.found =
                                     IF search_appends(doc, Lower(Chars(r.query)),
                                                       r.search_metadata) > 0
                                     THEN Put(r.found, k, doc)
                                     ELSE r.found]]
        /\ UNCHANGED <<policy_request, quote, documents, files, result, response, reports>>

(***************************************************************************)
(* The model reply and its parsers.                                        *)
(*                                                                         *)
(* A reply is a sequence of tokens that are written one after the other    *)
(* without a separator: "fence" is a run of three backticks, "json" and    *)
(* "x" are words, "\n" is white space, "{" and "}" are braces, "42" is a   *)
(* JSON number and                                                         *)
(* "risk_profile", "risk_factors", "risk_score" are members of a JSON      *)
(* object, each with its value.  response holds the text in three parts,   *)
(* before |-> , block |-> , after |-> , and Text is the whole of it.       *)
(***************************************************************************)
\* The most tokens of text around the block.
MaxText == 3

RequiredKeys == {"risk_profile", "risk_factors", "risk_score"}

Members == RequiredKeys

\* The tokens of the text around the block.
TextTokens == {"fence", "json", "{", "}", "x"}

Texts(n) == SeqsUpTo(TextTokens, n)

Objects ==
    {<<"{", "risk_profile", "risk_factors", "risk_score", "}">>,
     <<"{", "risk_profile", "}">>}

JsonFenced(body) == <<"fence", "json", "\n">> \o body \o <<"\n", "fence">>

BareFenced(body) == <<"fence", "\n">> \o body \o <<"\n", "fence">>

Blocks ==
    {JsonFenced(obj) : obj \in Objects} \cup {BareFenced(obj) : obj \in Objects}
        \cup Objects \cup {<<"42">>, <<"x">>}

Replies ==
    {r \in [before : Texts(MaxText), block : Blocks, after : Texts(MaxText)] :
        Len(r.before) + Len(r.after) <= MaxText}

Text(r) == r.before \o r.block \o r.after

Min(S) == CHOOSE x \in S : \A y \in S : x <= y

Max(S) == CHOOSE x \in S : \A y \in S : x >= y

\* str.strip()
RECURSIVE Strip(_)
Strip(text) ==
    IF text = <<>> THEN text
    ELSE IF Head(text) = "\n" THEN Strip(Tail(text))
    ELSE IF text[Len(text)] = "\n" THEN Strip(SubSeq(text, 1, Len(text) - 1))
    ELSE text

\* where the json fence and the fence occur in text
JsonFences(text) ==
    {i \in 1 .. Len(text) - 1 : text[i] = "fence" /\ text[i + 1] = "json"}

Fences(text) == {i \in 1 .. Len(text) : text[i] = "fence"}

\* text.split(fence + "json")[1]
AfterJsonFence(text) ==
    LET rest == SubSeq(text, Min(JsonFences(text)) + 2, Len(text))
    IN  IF JsonFences(rest) = {} THEN rest
        ELSE SubSeq(rest, 1, Min(JsonFences(rest)) - 1)

\* A split that keeps what follows the closing fence.
BeforeFence_whole(text) == text

\* text.split(fence)[0]
BeforeFence(text) ==
    IF Fences(text) = {} THEN text
    ELSE SubSeq(text, 1, Min(Fences(text)) - 1)

\* text.split(fence)[1], for a text that holds a fence
BetweenFences(text) ==
    BeforeFence(SubSeq(text, Min(Fences(text)) + 1, Len(text)))

\* json.loads: white space around the value is skipped; an object is a pair
\* of braces around members; anything else that is not a value is a
\* JSONDecodeError.
json_loads(text) ==
    LET t == Strip(text)
    IN  IF t = <<"42">> THEN [status |-> "ok", class |-> "int", keys |-> {}]
        ELSE IF /\ Len(t) >= 2
                /\ t[1] = "{"
                /\ t[Len(t)] = "}"
                /\ \A i \in 2 .. Len(t) - 1 : t[i] \in Members \cup {"\n"}
        THEN [status |-> "ok", class |-> "dict",
              keys |-> {t[i] : i \in 2 .. Len(t) - 1} \ {"\n"}]
        ELSE [status |-> "JSONDecodeError"]

\* UnderwritingAgent._parse_claude_response
_parse_claude_response(text) ==
    LET body == IF JsonFences(text) # {}
                THEN Strip(BeforeFence(AfterJsonFence(text)))
                ELSE IF Fences(text) # {}
                THEN Strip(BetweenFences(text))
                ELSE text
    IN  IF json_loads(body).status = "ok" THEN json_loads(body)
        ELSE [status |-> "ValueError"]

\* ClaudeContext.parse_model_response: it raises nothing, json.loads'
\* exception becomes the dict of handle_error.
parse_model_response(text) ==
    LET opens == {i \in 1 .. Len(text) : text[i] = "{"}
        closes == {i \in 1 .. Len(text) : text[i] = "}"}
        start_idx == IF opens = {} THEN -1 ELSE Min(opens) - 1
        end_idx == IF closes = {} THEN 0 ELSE Max(closes)
    IN  IF start_idx >= 0 /\ end_idx > start_idx THEN
            LET data == json_loads(SubSeq(text, start_idx + 1, end_idx))
            IN  IF data.status = "ok"
                THEN [status |-> "ok", parsed |-> TRUE, data |-> data]
                ELSE [status |-> "ok", parsed |-> FALSE, error_type |-> data.status]
        ELSE [status |-> "ok", parsed |-> FALSE, error_type |-> "none"]

ParseClaudeResponse ==
    /\ quote = NoQuote
    /\ quote' = [op |-> "_parse_claude_response"]
                    @@ _parse_claude_response(Text(response))
    /\ UNCHANGED <<policy_request, documents, files, result, response, threads, reports>>

ParseModelResponse ==
    /\ quote = NoQuote
    /\ quote' = [op |-> "parse_model_response"] @@ parse_model_response(Text(response))
    /\ UNCHANGED <<policy_request, documents, files, result, response, threads, reports>>

\* evaluate_risk: one call of the API, whose reply is parsed and returned as
\* it is.
EvaluateRisk ==
    \E api \in {"ok", "raise"} :
        /\ quote = NoQuote
        /\ quote' = IF api # "ok"
                    THEN [op |-> "evaluate_risk", status |-> "APIError"]
                    ELSE [op |-> "evaluate_risk"] @@ _parse_claude_response(Text(response))
        /\ UNCHANGED <<policy_request, documents, files, result, response, threads, reports>>

(***************************************************************************)
(* The business profile: models.py and the class of agent.py.              *)
(***************************************************************************)
valid_states ==
    {"AL", "AK", "AZ", "AR", "CA", "CO", "CT", "DE", "FL", "GA",
     "HI", "ID", "IL", "IN", "IA", "KS", "KY", "LA", "ME", "MD",
     "MA", "MI", "MN", "MS", "MO", "MT", "NE", "NV", "NH", "NJ",
     "NM", "NY", "NC", "ND", "OH", "OK", "OR", "PA", "RI", "SC",
     "SD", "TN", "TX", "UT", "VT", "VA", "WA", "WV", "WI", "WY"}

\* str.upper() on the state codes of the model
upper(v) == IF v = "ca" THEN "CA" ELSE IF v = "ny" THEN "NY" ELSE v

\* str.strip() on the descriptions of the model
strip(v) == IF v \in {"", " ", "  "} THEN "" ELSE v

validate_state(v) == IF upper(v) \notin valid_states THEN "ValueError" ELSE "ok"

validate_revenue(v) == IF v <= 0 THEN "ValueError" ELSE "ok"

validate_employees(v) == IF v <= 0 THEN "ValueError" ELSE "ok"

validate_description(v) == IF strip(v) = "" THEN "ValueError" ELSE "ok"

\* models.PolicyRequest(**data): pydantic runs the field validators and
\* raises ValidationError when one of them raises
models_PolicyRequest(request) ==
    IF /\ validate_state(request.state) = "ok"
       /\ validate_revenue(request.annual_revenue) = "ok"
       /\ validate_employees(request.employee_count) = "ok"
       /\ validate_description(request.business_description) = "ok"
    THEN "ok"
    ELSE "ValidationError"

\* The PolicyRequest class agent.py defines over the one it imports: typed
\* fields and no validator, so every request with fields of the right types
\* is built.
agent_PolicyRequest(request) ==
    IF DOMAIN request = {"business_type", "annual_revenue", "employee_count",
                         "years_in_business", "claims_history", "state",
                         "business_description"}
    THEN "ok"
    ELSE "ValidationError"

\* a request with the fields the rating engine does not read
Profile(request, state, description) ==
    request @@ [state |-> state, business_description |-> description]

(***************************************************************************)
(* The conditions of a quote.                                              *)
(***************************************************************************)
high_risk_conditions ==
    <<"Monthly safety inspections required",
      "Employee training program implementation",
      "Security system installation",
      "Regular risk assessment reviews">>

restaurant_conditions ==
    <<"Food safety certification required",
      "Regular kitchen equipment maintenance",
      "Employee hygiene training">>

manufacturing_conditions ==
    <<"Equipment safety inspections",
      "Worker safety training",
      "Emergency response plan">>

claims_conditions ==
    <<"Claims review every 6 months",
      "Risk mitigation plan required">>

\* conditions.extend for a business type: if restaurant, elif manufacturing
business_type_conditions(business_type) ==
    IF lower(business_type) = "restaurant" THEN restaurant_conditions
    ELSE IF lower(business_type) = "manufacturing" THEN manufacturing_conditions
    ELSE <<>>

_determine_conditions_first_rule(request, risk_evaluation) ==
    IF "risk_profile" \notin DOMAIN risk_evaluation THEN <<"KeyError">>
    ELSE IF lower(risk_evaluation.risk_profile) = "high" THEN high_risk_conditions
    ELSE IF business_type_conditions(request.business_type) # <<>>
         THEN business_type_conditions(request.business_type)
    ELSE IF request.claims_history # <<>> THEN claims_conditions
    ELSE <<>>

\* _determine_conditions; risk_evaluation['risk_profile'] raises KeyError
\* when the key is missing
_determine_conditions(request, risk_evaluation) ==
    IF "risk_profile" \notin DOMAIN risk_evaluation THEN <<"KeyError">>
    ELSE (IF lower(risk_evaluation.risk_profile) = "high"
          THEN high_risk_conditions ELSE <<>>)
         \o business_type_conditions(request.business_type)
         \o (IF request.claims_history # <<>> THEN claims_conditions ELSE <<>>)

(***************************************************************************)
(* The report file and the quote returned.                                 *)
(***************************************************************************)
\* f"reports/quote_{timestamp}.pdf", timestamp to the second: the clock
\* reading is all that tells two report paths apart
report_path(timestamp) == [time |-> timestamp]

\* the dict process_policy_request returns
Returned(q, timestamp) ==
    [quote_id |-> q.quote_id,
     premium_estimate |-> q.premium,
     risk_profile |-> Get(q.analysis, "risk_profile", "unknown"),
     risk_factors |-> Get(q.analysis, "risk_factors", "[]"),
     report_path |-> q.report_path,
     timestamp |-> timestamp]

(***************************************************************************)
(* A quote operation, statement by statement.  quote.steps lists the steps *)
(* of the operation in the order in which they are entered: "validate"     *)
(* (the PolicyRequest is built), "client" (the model is asked and its      *)
(* reply parsed), "rate" (rating functions are evaluated), "compose"       *)
(* (conditions and explanation), "render" (_generate_report) and "return". *)
(***************************************************************************)
\* quote operations the agent is given, one after the other
MaxQuotes == 2

StepRequests ==
    {Profile(Scenario, "CA", "Family restaurant"),
     Profile([Scenario EXCEPT !.business_type = "retail"], "ca", "Shop"),
     Profile([Scenario EXCEPT !.claims_history = <<>>], "NY", "Family restaurant"),
     Profile([Scenario EXCEPT !.annual_revenue = 0], "CA", "Family restaurant"),
     Profile([Scenario EXCEPT !.employee_count = 0], "CA", "Family restaurant"),
     Profile(Scenario, "ZZ", "Family restaurant"),
     Profile(Scenario, "CA", "  ")}

\* The analysis parsed from the reply, with all the keys of the prompt or not.
StepAnalyses ==
    Analyses \cup {[risk_profile |-> "high", risk_factors |-> "none", risk_score |-> 50]}

QuoteAt(pc) == "pc" \in DOMAIN quote /\ quote.pc = pc

\* the operation enters a step and goes on at pc
Enters(step, pc) == [quote EXCEPT !.steps = Append(@, step), !.pc = pc]

Fails_retrying(step, error) ==
    IF step = "client"
    THEN [quote EXCEPT !.steps = Append(@, step), !.pc = "client", !.cause = error]
    ELSE [quote EXCEPT !.steps = Append(@, step), !.pc = "failed", !.cause = error,
                       !.status = IF quote.op = "make_decision" THEN "Exception" ELSE error]

\* the operation enters a step, which raises; make_decision wraps what is
\* raised in an Exception
Fails(step, error) ==
    [quote EXCEPT !.steps = Append(@, step), !.pc = "failed", !.cause = error,
                  !.status = IF quote.op = "make_decision" THEN "Exception" ELSE error]

\* datetime.now(): the operation q reads the clock, which says t; q.clock
\* lists the readings of the operation and q.now is the latest reading of
\* the process
Reads(q, t) == [q EXCEPT !.clock = Append(@, t), !.now = t]

\* what the clock may say next: it does not run backwards
Now == {t \in Times : t >= quote.now}

\* a local of the operation q is assigned
Assigns(q, locals) == locals @@ q

\* The operation at its first line.  process_policy_request draws its
\* quote_id from uuid.uuid4(), a value no other call draws: the ordinal of
\* the operation.
Called(op, n, now) ==
    Assigns([op |-> op, n |-> n, pc |-> "client", steps |-> <<"validate">>,
             status |-> "running", cause |-> "none", analysis |-> EmptyDict,
             premium |-> 0, calls |-> 0, clock |-> <<>>, now |-> now],
            IF op = "process_policy_request"
            THEN [quote_id |-> [uuid |-> n]] ELSE EmptyDict)

\* The PolicyRequest the operation is given was built by the class of
\* agent.py (FastAPI for get_quote, run_agent.py, evaluate_risk for a dict).
QuoteCalledAs(n, now) ==
    \E op \in {"process_policy_request", "make_decision"} :
        /\ quote' = IF agent_PolicyRequest(policy_request) = "ok"
                    THEN Called(op, n, now)
                    ELSE [Called(op, n, now) EXCEPT !.pc = "failed",
                                               !.status = "ValidationError",
                                               !.cause = "ValidationError"]
        /\ UNCHANGED <<policy_request, documents, files, result, response, threads, reports>>

\* get_quote receives the PolicyRequest FastAPI built and calls
\* process_policy_request; make_decision calls evaluate_risk, which builds
\* the PolicyRequest when it is given a dict.
QuoteCalled == quote = NoQuote /\ QuoteCalledAs(1, 1)

\* The agent is given the next request once the operation before has ended.
QuoteCalledAgain ==
    /\ QuoteAt("done") \/ QuoteAt("failed")
    /\ quote.n < MaxQuotes
    /\ QuoteCalledAs(quote.n + 1, quote.now)

\* self.client.messages.create and _parse_claude_response
ClientReplies ==
    \E api \in {"ok", "raise"}, json_ok \in BOOLEAN, parsed \in StepAnalyses :
        /\ QuoteAt("client")
        /\ quote' = [(IF api # "ok" THEN Fails("client", "APIError")
                      ELSE IF ~json_ok THEN Fails("client", "ValueError")
                      ELSE [Enters("client", "rate") EXCEPT !.analysis = parsed])
                        EXCEPT !.calls = @ + 1]
        /\ UNCHANGED <<policy_request, documents, files, result, response, threads, reports>>

\* process_policy_request: base_rate * adjustment_factor;
\* make_decision: _calculate_premium
Rates ==
    /\ QuoteAt("rate")
    /\ quote' = IF quote.op = "make_decision"
                THEN [Enters("rate", "compose") EXCEPT
                         !.premium = _calculate_premium(policy_request)]
                ELSE [Enters("rate", "render") EXCEPT
                         !.premium = ProcessPremium(policy_request, quote.analysis)]
    /\ UNCHANGED <<policy_request, documents, files, result, response, threads, reports>>

\* make_decision reads the clock for its quote_id and builds the dict it
\* hands to _generate_report: the three keys of risk_evaluation,
\* _determine_conditions, _generate_explanation.
Composes ==
    /\ QuoteAt("compose")
    /\ \E t \in Now :
        /\ quote' = Assigns(Reads(IF RequiredKeys \subseteq DOMAIN quote.analysis
                                  THEN Enters("compose", "render")
                                  ELSE Fails("compose", "KeyError"), t),
                            [quote_id |-> [time |-> t]])
        /\ UNCHANGED <<policy_request, documents, files, result, response, threads, reports>>

\* _generate_report up to the table of the business: os.makedirs, the clock
\* read that names the file, and the premium formatted with :,.2f, which a
\* dict (make_decision) does not take.
RenderStarts ==
    /\ QuoteAt("render")
    /\ \E fs \in {"ok", "oserror"}, t \in Now :
        /\ quote' = IF fs # "ok" THEN Fails("render", "OSError")
                    ELSE Assigns(Reads(IF quote.op = "make_decision"
                                       THEN Fails("render", "TypeError")
                                       ELSE Enters("render", "render:rate"), t),
                                 [report_path |-> report_path(t)])
        /\ UNCHANGED <<policy_request, documents, files, result, response, threads, reports>>

\* _generate_report: the premium breakdown of the report
RenderRates ==
    /\ QuoteAt("render:rate")
    /\ quote' = Enters("rate", "render:conditions")
    /\ UNCHANGED <<policy_request, documents, files, result, response, threads, reports>>

\* _generate_report: _determine_conditions, then doc.build, which writes the
\* file of the report (over the file of that name, if there is one)
RenderComposes ==
    /\ QuoteAt("render:conditions")
    /\ IF _generate_report(quote.analysis, "ok") = "ok"
       THEN /\ quote' = Assigns(Enters("compose", "return"),
                                [conditions |->
                                    _determine_conditions(policy_request, quote.analysis)])
            /\ reports' = Put(reports, quote.report_path,
                              Append(Get(reports, quote.report_path, <<>>), quote.n))
       ELSE /\ quote' = Fails("compose", _generate_report(quote.analysis, "ok"))
            /\ UNCHANGED reports
    /\ UNCHANGED <<policy_request, documents, files, result, response, threads>>

\* process_policy_request: the dict it returns, with the timestamp read
\* from the clock at that point
Returns ==
    /\ QuoteAt("return")
    /\ \E t \in Now :
        /\ quote' = Assigns([Reads(Enters("return", "done"), t) EXCEPT !.status = "ok"],
                            [returned |-> Returned(quote, t)])
        /\ UNCHANGED <<policy_request, documents, files, result, response, threads, reports>>

\* The requests and risk evaluations _determine_conditions is applied to.
ConditionRequests ==
    {Profile([Scenario EXCEPT !.business_type = business_type,
                              !.claims_history = claims_history],
             "CA", "A business") :
        business_type \in {"restaurant", "Restaurant", "manufacturing",
                           "MANUFACTURING", "retail", "construction",
                           "professional_services"},
        claims_history \in {<<>>, <<[amount |-> 5000]>>,
                            <<[amount |-> 5000], [amount |-> 60000]>>}}

ConditionAnalyses == StepAnalyses \cup {[risk_profile |-> "High"]}

DetermineConditions ==
    \E risk_evaluation \in ConditionAnalyses :
        /\ quote = NoQuote
        /\ quote' = [op |-> "_determine_conditions",
                     risk_evaluation |-> risk_evaluation,
                     status |-> IF "risk_profile" \in DOMAIN risk_evaluation
                                THEN "ok" ELSE "KeyError",
                     conditions |-> _determine_conditions(policy_request, risk_evaluation)]
        /\ UNCHANGED <<policy_request, documents, files, result, response, threads, reports>>

\* _generate_explanation reads the three keys of the risk evaluation
GenerateExplanation ==
    \E risk_evaluation \in ConditionAnalyses :
        /\ quote = NoQuote
        /\ quote' = [op |-> "_generate_explanation",
                     risk_evaluation |-> risk_evaluation,
                     status |-> IF RequiredKeys \subseteq DOMAIN risk_evaluation
                                THEN "ok" ELSE "KeyError"]
        /\ UNCHANGED <<policy_request, documents, files, result, response, threads, reports>>

(***************************************************************************)
(* batch_quote of cli.py.  policy_request is the list loaded from the      *)
(* input file, quote.i the index enumerate(data, 1) is at (0 when the loop  *)
(* was not reached), and quote.log                                         *)
(* the lines echoed, one for each item: the item and the error reported    *)
(* for it, "none" when its quote was written out.                          *)
(***************************************************************************)
\* The most requests in an input file.
MaxBatch == 3

\* an item of the list that is no JSON object
NotAMapping == [class |-> "str"]

BatchItems ==
    {Profile(Scenario, "CA", "Family restaurant"),
     Profile([Scenario EXCEPT !.annual_revenue = 0], "CA", "Family restaurant"),
     NotAMapping}

BatchFiles == SeqsUpTo(BatchItems, MaxBatch)

\* PolicyRequest(**request_data), with the class of models.py
PolicyRequestFrom(request_data) ==
    IF "class" \in DOMAIN request_data THEN "TypeError"
    ELSE models_PolicyRequest(request_data)

\* agent.process_request(request): UnderwritingAgent defines
\* process_policy_request, make_decision and evaluate_risk, and no
\* process_request
process_request(request) == "AttributeError"

\* the body of the try of the loop, for one item: what it raises, or "none"
ProcessItem(request_data, io) ==
    IF PolicyRequestFrom(request_data) # "ok" THEN PolicyRequestFrom(request_data)
    ELSE IF process_request(request_data) # "ok" THEN process_request(request_data)
    ELSE IF io # "ok" THEN "ClickException"
    ELSE "none"

AfterItem_aborting(q, error) ==
    IF error = "none"
    THEN [q EXCEPT !.log = Append(@, [item |-> q.i, error |-> error]), !.i = @ + 1]
    ELSE [q EXCEPT !.pc = "failed", !.status = "ClickException"]

\* the echo of the item, and for an error the except clause of the loop:
\* echo to stderr, continue
AfterItem(q, error) ==
    [q EXCEPT !.log = Append(@, [item |-> q.i, error |-> error]), !.i = @ + 1]

\* batch_quote up to the loop: the API key, the input file (a list), the
\* output directory, the agent
BatchQuoteCalled ==
    \E setup \in {"ok", "no_api_key", "no_output_dir"} :
        /\ quote = NoQuote
        /\ quote' = IF setup = "ok"
                    THEN [op |-> "batch_quote", pc |-> "loop", i |-> 1, log |-> <<>>,
                          status |-> "running"]
                    ELSE [op |-> "batch_quote", pc |-> "failed", i |-> 0, log |-> <<>>,
                          status |-> "ClickException"]
        /\ UNCHANGED <<policy_request, documents, files, result, response, threads, reports>>

\* one turn of the loop
BatchItem ==
    \E io \in {"ok", "write_fails"} :
        /\ quote.op = "batch_quote" /\ QuoteAt("loop")
        /\ quote.i <= Len(policy_request)
        /\ quote' = AfterItem(quote, ProcessItem(policy_request[quote.i], io))
        /\ UNCHANGED <<policy_request, documents, files, result, response, threads, reports>>

\* enumerate is exhausted: the command returns
BatchEnds ==
    /\ quote.op = "batch_quote" /\ QuoteAt("loop")
    /\ quote.i > Len(policy_request)
    /\ quote' = [quote EXCEPT !.pc = "done", !.status = "ok"]
    /\ UNCHANGED <<policy_request, documents, files, result, response, threads, reports>>

(***************************************************************************)
(* Specifications.                                                         *)
(***************************************************************************)
InitStore ==
    /\ documents = EmptyDict
    /\ files = EmptyDict
    /\ result = [op |-> "none"]

InitRating == policy_request \in PolicyRequest /\ quote = NoQuote

\* No reply has been received and no call is in progress.
NoResponse == <<>>

NoThreads == [writer |-> [pc |-> "idle"], reader |-> [pc |-> "idle"]]

InitIdle == response = NoResponse /\ threads = NoThreads /\ reports = EmptyDict

Init == InitRating /\ InitStore /\ InitIdle

NextRating == CalculatePremium \/ ProcessPolicyRequest

SpecRating == Init /\ [][NextRating]_vars

InitDocuments ==
    policy_request = Scenario /\ quote = NoQuote /\ InitStore /\ InitIdle

NextStore ==
    \/ AddDocument
    \/ GetDocument
    \/ ListDocuments
    \/ SearchDocuments
    \/ DeleteDocument
    \/ UpdateDocument
    \/ OpenStore

SpecStore == InitDocuments /\ [][NextStore]_vars

\* The store on a file system whose writes can fail and whose directory other
\* programs write to.
NextFaults ==
    \/ AddDocumentFaulty
    \/ UpdateDocumentFaulty
    \/ CorruptFileAppears
    \/ GetDocument
    \/ OpenStore

SpecFaults == InitDocuments /\ [][NextFaults]_vars

\* A store opened on a directory of documents and shared by two threads.
InitThreads ==
    /\ policy_request = Scenario
    /\ quote = NoQuote
    /\ files \in InitialDirs
    /\ documents \in _load_documents(files)
    /\ result = [op |-> "__init__", status |-> "ok"]
    /\ InitIdle

NextThreads ==
    \/ WriterCalls
    \/ AddWrites
    \/ AddCaches
    \/ UpdateLooksUp
    \/ UpdateSetsField
    \/ UpdateStamps
    \/ UpdateWrites
    \/ DeleteChecks
    \/ DeleteUnlinks
    \/ DeleteForgets
    \/ ReaderGets
    \/ ReaderLists
    \/ ReaderStartsSearch
    \/ ReaderSearchNext

SpecThreads == InitThreads /\ [][NextThreads]_vars

\* One quote operation, step by step.
InitSteps ==
    /\ policy_request \in StepRequests
    /\ quote = NoQuote
    /\ InitStore
    /\ InitIdle

NextSteps ==
    \/ QuoteCalled
    \/ ClientReplies
    \/ Rates
    \/ Composes
    \/ RenderStarts
    \/ RenderRates
    \/ RenderComposes
    \/ Returns

SpecSteps == InitSteps /\ [][NextSteps]_vars

\* The conditions and the explanation of a quote, for a request and a risk
\* evaluation.
InitConditions ==
    /\ policy_request \in ConditionRequests
    /\ quote = NoQuote
    /\ InitStore
    /\ InitIdle

NextConditions == DetermineConditions \/ GenerateExplanation

SpecConditions == InitConditions /\ [][NextConditions]_vars

\* A batch run over the list of an input file.
InitBatch ==
    /\ policy_request \in BatchFiles
    /\ quote = NoQuote
    /\ InitStore
    /\ InitIdle

NextBatch == BatchQuoteCalled \/ BatchItem \/ BatchEnds

SpecBatch == InitBatch /\ [][NextBatch]_vars

\* Quote operations one after the other, on one reports directory.
InitQuotes ==
    /\ policy_request = Profile(Scenario, "CA", "Family restaurant")
    /\ quote = NoQuote
    /\ InitStore
    /\ InitIdle

NextQuotes == NextSteps \/ QuoteCalledAgain

SpecQuotes == InitQuotes /\ [][NextQuotes]_vars

\* A reply arrives and is parsed.
InitParse ==
    /\ policy_request = Scenario
    /\ quote = NoQuote
    /\ InitStore
    /\ response \in Replies
    /\ threads = NoThreads
    /\ reports = EmptyDict

NextParse == ParseClaudeResponse \/ ParseModelResponse \/ EvaluateRisk

SpecParse == InitParse /\ [][NextParse]_vars

\* A store that is filled, edited and searched.
NextSearch ==
    \/ AddDocumentSearched
    \/ UpdateDocumentSearched
    \/ SearchDocumentsAny

SpecSearch == InitDocuments /\ [][NextSearch]_vars

(***************************************************************************)
(* Rating engine: claims C1 - C5, checked under SpecRating.                *)
(***************************************************************************)
Rated == quote.op = "_calculate_premium"

\* C1: the premium _calculate_premium returns is exactly base_rate x
\* revenue_factor x employee_factor x claims_factor x years_factor of the
\* profile, and so the product of the breakdown it computed, with no other
\* term.
C1_PremiumIsProduct ==
    Rated =>
        /\ quote.premium =
               _calculate_base_rate(policy_request.business_type)
                 * _calculate_revenue_factor(policy_request.annual_revenue)
                 * _calculate_employee_factor(policy_request.employee_count)
                 * _calculate_claims_factor(policy_request.claims_history)
                 * _calculate_years_factor(policy_request.years_in_business)
        /\ quote.premium =
               quote.breakdown.base_rate * quote.breakdown.revenue_factor
                 * quote.breakdown.employee_factor * quote.breakdown.claims_factor
                 * quote.breakdown.years_factor

\* A construction business rated with every factor away from 1.0:
\* 10000 x 1.5 x 1.5 x 1.5 x 1.2 = 40500 dollars.
C1_Witness ==
    /\ Rated
    /\ policy_request.business_type = "construction"
    /\ policy_request.annual_revenue = 2000000
    /\ policy_request.employee_count = 50
    /\ Len(policy_request.claims_history) = 3
    /\ policy_request.years_in_business = 1
    /\ quote.premium = 405000000

\* C2: the premium_estimate of a quote returned by process_policy_request is
\* the rating engine's premium for the submitted profile, whatever the risk
\* profile of the model reply.
C2_QuotePremiumIsRatingPremium ==
    (quote.op = "process_policy_request" /\ quote.status = "ok") =>
        quote.premium_estimate = _calculate_premium(policy_request)

\* C3: revenue_factor is the step function 0.8 / 1.0 / 1.2 / 1.5 split at
\* 500000, 1000000 and 2000000, a revenue equal to a threshold takes the upper
\* bracket, and no larger revenue has a smaller factor.
C3_RevenueFactorSteps ==
    Rated =>
        LET r == policy_request.annual_revenue
            f == quote.breakdown.revenue_factor
        IN  /\ r < 500000 => f = 8
            /\ (500000 <= r /\ r < 1000000) => f = 10
            /\ (1000000 <= r /\ r < 2000000) => f = 12
            /\ 2000000 <= r => f = 15
            /\ r = 500000 => f = 10
            /\ r = 1000000 => f = 12
            /\ r = 2000000 => f = 15
            /\ \A r2 \in RevenueValues :
                   r <= r2 => f <= _calculate_revenue_factor(r2)

\* A revenue exactly on the middle threshold is rated 1.2.
C3_Witness ==
    /\ Rated
    /\ policy_request.annual_revenue = 1000000
    /\ quote.breakdown.revenue_factor = 12

\* C4: claims_factor is 0.9 for no claim, 1.1 for one claim below 5000, 1.2
\* for one claim of 5000 or more, 1.3 for two claims and 1.5 for three or
\* more, whatever the amounts of two or more claims.
C4_ClaimsFactorTable ==
    Rated =>
        LET c == policy_request.claims_history
            f == quote.breakdown.claims_factor
        IN  /\ Len(c) = 0 => f = 9
            /\ (Len(c) = 1 /\ c[1].amount < 5000) => f = 11
            /\ (Len(c) = 1 /\ c[1].amount >= 5000) => f = 12
            /\ Len(c) = 2 => f = 13
            /\ Len(c) >= 3 => f = 15

\* Two small claims, 2000 in total, are rated 1.3: the count decides.
C4_Witness ==
    /\ Rated
    /\ policy_request.claims_history = <<[amount |-> 1000], [amount |-> 1000]>>
    /\ quote.breakdown.claims_factor = 13

\* C5 as stated: the scenario (restaurant, 750000, 25 employees, 5 years, one
\* claim of 5000) is rated revenue_factor 1.2, employee_factor 1.2,
\* years_factor 1.0 and claims_factor 1.1, and the premium is their product
\* with the restaurant base rate.
C5_ScenarioAsStated ==
    (Rated /\ policy_request = Scenario) =>
        /\ quote.breakdown.base_rate = base_rates["restaurant"]
        /\ quote.breakdown.revenue_factor = 12
        /\ quote.breakdown.employee_factor = 12
        /\ quote.breakdown.years_factor = 10
        /\ quote.breakdown.claims_factor = 11
        /\ quote.premium = base_rates["restaurant"] * 12 * 12 * 10 * 11

\* C5, amended: the scenario is rated revenue_factor 1.0 (750000 is below
\* 1000000), employee_factor 1.2, years_factor 1.0 and claims_factor 1.2 (a
\* single claim of 5000 is not below 5000), and the premium is their product
\* with the restaurant base rate: 5000 x 1.0 x 1.2 x 1.2 x 1.0 = 7200.
C5_ScenarioAsRated ==
    (Rated /\ policy_request = Scenario) =>
        /\ quote.breakdown.base_rate = base_rates["restaurant"]
        /\ quote.breakdown.revenue_factor = 10
        /\ quote.breakdown.employee_factor = 12
        /\ quote.breakdown.years_factor = 10
        /\ quote.breakdown.claims_factor = 12
        /\ quote.premium = base_rates["restaurant"] * 10 * 12 * 12 * 10
        /\ quote.premium = 72000000

C5_Witness == Rated /\ policy_request = Scenario

(***************************************************************************)
(* Document store: claims C6 - C10, checked under SpecStore.               *)
(***************************************************************************)
\* Every document but the one under key k, in the cache and on disk, is as it was.
OthersUnchanged(k) ==
    /\ DOMAIN documents' \ {k} = DOMAIN documents \ {k}
    /\ \A x \in DOMAIN documents \ {k} : documents'[x] = documents[x]
    /\ DOMAIN files' \ {k} = DOMAIN files \ {k}
    /\ \A x \in DOMAIN files \ {k} : files'[x] = files[x]

ValidAddArgs(args) ==
    /\ args.doc_id # ""
    /\ args.title # ""
    /\ args.content # ""
    /\ args.metadata.class = "dict"

C7_DeleteRemoves ==
    [][(/\ result'.op = "delete_document"
        /\ result'.doc_id \in DOMAIN documents
        /\ result'.io = "ok") =>
          LET k == result'.doc_id
          IN  /\ k \notin DOMAIN documents'
              /\ k \notin DOMAIN files'
              /\ get_document(documents', k).status = "FileNotFoundError"
              /\ k \notin DOMAIN list_documents(documents')
              /\ \A q \in Queries, m \in BOOLEAN :
                     k \notin DOMAIN search_documents(documents', q, m)
              /\ OthersUnchanged(k)]_vars

\* C8: a successful update overwrites exactly the supplied fields the
\* document already has, adds no field, sets last_updated to the clock's
\* reading, leaves the other fields and the other documents as they were, and
\* the file and get both show the result.
C8_UpdateFrame ==
    [][(result'.op = "update_document" /\ result'.status = "ok") =>
          LET k == result'.doc_id
              kwargs == result'.kwargs
              old == documents[k]
              new == documents'[k]
          IN  /\ DOMAIN new = DOMAIN old
              /\ new.last_updated = result'.now
              /\ \A key \in DOMAIN old \ {"last_updated"} :
                     new[key] = IF key \in DOMAIN kwargs THEN kwargs[key] ELSE old[key]
              /\ files'[k] = new
              /\ get_document(documents', k).value = new
              /\ OthersUnchanged(k)]_vars

\* An update with a known and an unknown field, next to another document.
C8_Witness ==
    /\ result.op = "update_document"
    /\ result.status = "ok"
    /\ result.kwargs = [content |-> "b", author |-> "x"]
    /\ DOMAIN documents = {"a", "b"}
    /\ documents[result.doc_id].content = "b"
    /\ documents[result.doc_id].title = "T1"
    /\ "author" \notin DOMAIN documents[result.doc_id]
    /\ files[result.doc_id] = documents[result.doc_id]

\* C9: get, update and delete of an id that is not in the store fail with
\* NotFoundError (FileNotFoundError) and change neither the cache nor a file.
C9_MissFails ==
    [][(/\ result'.op \in {"get_document", "update_document", "delete_document"}
        /\ result'.doc_id \notin DOMAIN documents) =>
          /\ result'.status = "FileNotFoundError"
          /\ documents' = documents
          /\ files' = files]_vars

\* An update of a missing id in a store that holds another document.
C9_Witness ==
    /\ result.op = "update_document"
    /\ result.status = "FileNotFoundError"
    /\ result.doc_id \notin DOMAIN documents
    /\ documents # EmptyDict

\* C10: add fails with ValidationError (ValueError) when doc_id, title or
\* content is empty or metadata is not a dict, and then writes no file and
\* leaves the cache as it was.
C10_AddValidates ==
    [][(result'.op = "add_document" /\ ~ValidAddArgs(result'.args)) =>
          /\ result'.status = "ValueError"
          /\ documents' = documents
          /\ files' = files]_vars

\* An add with a list for metadata is refused by a store that holds documents.
C10_Witness ==
    /\ result.op = "add_document"
    /\ result.status = "ValueError"
    /\ result.args.metadata = NotADict
    /\ result.args.doc_id = "a"
    /\ documents # EmptyDict
    /\ files = documents

(***************************************************************************)
(* Document store under faults: claims C11 - C14, checked under SpecFaults. *)
(***************************************************************************)
\* C11: add writes the file before it touches the cache: when the write fails
\* the cache is what it was before the call, nothing added and nothing
\* replaced, and when the add succeeds the cached document is the one in the
\* file.
C11_AddWritesFirst ==
    [][result'.op = "add_document" =>
          /\ result'.status = "OSError" => documents' = documents
          /\ result'.status = "ok" =>
                 /\ result'.doc_id \in DOMAIN files'
                 /\ documents'[result'.doc_id] = files'[result'.doc_id]]_vars

\* An add over a cached document failed in json.dump: the file is truncated,
\* the cache still holds the earlier document.
C11_Witness ==
    /\ result.op = "add_document"
    /\ result.status = "OSError"
    /\ result.io = "dump_fails"
    /\ result.existed
    /\ files[result.doc_id] = CorruptFile
    /\ documents[result.doc_id].last_updated = 1

\* C12: when the write of an update fails, the cached document, as get
\* returns it, has the field values it had before the call, last_updated
\* included.
C12_UpdateAtomic ==
    [][(/\ result'.op = "update_document"
        /\ result'.status = "OSError") =>
          get_document(documents', result'.doc_id) =
              get_document(documents, result'.doc_id)]_vars

\* C13: a new store on a directory is constructed, and its cache holds the
\* document of every file that parses, whatever corrupt files lie next to
\* them.
C13_LoadsEveryReadableFile ==
    [][result'.op = "__init__" =>
          /\ result'.status = "ok"
          /\ \A stem \in DOMAIN files :
                 files[stem] # CorruptFile =>
                     \E k \in DOMAIN documents' : documents'[k] = files[stem]]_vars

\* C14: get of an id that is not cached, while <doc_id>.json is a corrupt
\* file in the directory, raises a JSON decode error.
C14_GetSurfacesParseError ==
    [][(/\ result'.op = "get_document"
        /\ result'.doc_id \notin DOMAIN documents
        /\ result'.doc_id \in DOMAIN files
        /\ files[result'.doc_id] = CorruptFile) =>
          result'.status = "JSONDecodeError"]_vars

(***************************************************************************)
(* Search: claim C15, checked under SpecSearch.                            *)
(***************************************************************************)
\* query occurs in text when the case of the letters is ignored
OccursIgnoringCase(query, text) ==
    \E i \in 0 .. Len(text) - Len(query) :
        \A j \in 1 .. Len(query) : LowerChar(text[i + j]) = LowerChar(query[j])

\* C15: search returns exactly the cached documents whose content contains
\* the query as a case-insensitive substring and, only when search_metadata
\* is true, those whose metadata written as JSON text contains it; each of
\* them once, and nothing when no document matches.
C15_SearchExact ==
    [][result'.op = "search_documents" =>
          LET q == Chars(result'.query)
              hits == {k \in DOMAIN documents :
                          \/ OccursIgnoringCase(q, Chars(documents[k].content))
                          \/ /\ result'.search_metadata
                             /\ OccursIgnoringCase(q, json_dumps(documents[k].metadata.value))}
          IN  /\ DOMAIN result'.value = hits
              /\ \A k \in hits : result'.value[k] = documents[k] /\ result'.times[k] = 1
              /\ \A k \in DOMAIN documents \ hits : result'.times[k] = 0
              /\ hits = {} => result'.value = EmptyDict]_vars

\* A search of the metadata found one of two documents, by its metadata only.
C15_Witness ==
    /\ result.op = "search_documents"
    /\ result.query = "ty"
    /\ result.search_metadata
    /\ DOMAIN documents = {"a", "b"}
    /\ DOMAIN result.value = {"b"}
    /\ result.value["b"].metadata = Dict([type |-> "policy"])
    /\ result.times = [a |-> 0, b |-> 1]

(***************************************************************************)
(* Concurrency: claim C16, checked under SpecThreads.                      *)
(***************************************************************************)
\* C16: what a get, list or search returns while another thread adds,
\* updates or deletes is what it would return from the cache as it was before
\* the write or as it is after the write, never anything else.
C16_ReaderSeesBeforeOrAfter ==
    LET r == threads.reader
        w == threads.writer
    IN  r.pc = "done" =>
            IF w.pc = "idle" THEN r.seen = ReaderView(r, documents)
            ELSE \/ r.seen = ReaderView(r, w.before)
                 \/ r.seen = ReaderView(r, w.after)

(***************************************************************************)
(* The reply parser: claims C17 - C19, checked under SpecParse.            *)
(***************************************************************************)
ObjectKeys(obj) == {obj[i] : i \in 2 .. Len(obj) - 1}

\* the result is the object obj
ParsedAs(obj) ==
    /\ quote.status = "ok"
    /\ quote.class = "dict"
    /\ quote.keys = ObjectKeys(obj)

\* C17: for a reply whose JSON object stands in a json fence, the parser
\* returns that object, whatever text comes before and after the fenced
\* block.
C17_FencedJsonParsed ==
    \A obj \in Objects :
        (/\ quote.op = "_parse_claude_response"
         /\ response.block = JsonFenced(obj)) => ParsedAs(obj)

\* C17 as the parser does it: the object of the first json fence is returned,
\* so the text before the block must not hold a json fence of its own; the
\* text after the block is free.
C17_FirstFencedJsonParsed ==
    \A obj \in Objects :
        (/\ quote.op = "_parse_claude_response"
         /\ response.block = JsonFenced(obj)
         /\ JsonFences(response.before) = {}) => ParsedAs(obj)

\* A fenced object was parsed out of a reply with a fence and a brace before
\* the block and a brace after it.
C17_Witness ==
    /\ quote.op = "_parse_claude_response"
    /\ response.block = JsonFenced(<<"{", "risk_profile", "risk_factors", "risk_score", "}">>)
    /\ response.before = <<"{", "fence">>
    /\ response.after = <<"}">>
    /\ quote.status = "ok"
    /\ quote.keys = RequiredKeys

\* C18: evaluate_risk returns a result only when the reply holds a JSON
\* object with the keys risk_profile, risk_factors and risk_score; otherwise
\* it fails and returns nothing.
C18_EvaluateAllOrNothing ==
    (quote.op = "evaluate_risk" /\ quote.status = "ok") =>
        /\ quote.class = "dict"
        /\ RequiredKeys \subseteq quote.keys

\* C19: an object that stands unfenced between words is found by its first
\* and last brace and returned, and an object inside a json fence or a bare
\* fence is returned without the fence.
C19_FallbackToBraces ==
    \A obj \in Objects :
        quote.op = "_parse_claude_response" =>
            /\ (/\ response.block = obj
                /\ \A i \in 1 .. Len(response.before) : response.before[i] \in {"x", "json"}
                /\ \A i \in 1 .. Len(response.after) : response.after[i] \in {"x", "json"})
                   => ParsedAs(obj)
            /\ (/\ response.block \in {JsonFenced(obj), BareFenced(obj)}
                /\ Fences(response.before) = {}
                /\ Fences(response.after) = {})
                   => ParsedAs(obj)

(***************************************************************************)
(* The order of a quote operation: claim C20, checked under SpecSteps.     *)
(***************************************************************************)
QuoteSteps == <<"validate", "rate", "client", "compose", "render", "return">>

\* C20: the steps a quote operation has entered are, in this order and each
\* once, the first steps of validate, rate, client, compose, render, return.
C20_StepsInOrder ==
    "pc" \in DOMAIN quote =>
        /\ Len(quote.steps) <= Len(QuoteSteps)
        /\ quote.steps = SubSeq(QuoteSteps, 1, Len(quote.steps))

\* C21: a quote operation that fails returns no quote, and a quote that is
\* returned carries the risk assessment parsed from the reply (the
\* risk_profile and the risk_factors the reply gave), the premium computed
\* from it, and the path of a report that this operation rendered.
C21_NoPartialQuote ==
    "pc" \in DOMAIN quote =>
        /\ quote.pc = "failed" =>
              "returned" \notin DOMAIN quote /\ quote.status \notin {"ok", "running"}
        /\ "returned" \in DOMAIN quote =>
              /\ quote.status = "ok" /\ quote.calls = 1
              /\ {"risk_profile", "risk_factors"} \subseteq DOMAIN quote.analysis
              /\ quote.returned.risk_profile = quote.analysis.risk_profile
              /\ quote.returned.risk_factors = quote.analysis.risk_factors
              /\ quote.returned.premium_estimate
                    = ProcessPremium(policy_request, quote.analysis)
              /\ quote.returned.report_path \in DOMAIN reports
              /\ \E i \in DOMAIN reports[quote.returned.report_path] :
                    reports[quote.returned.report_path][i] = quote.n

\* C22: a quote operation given a profile that violates the invariant of
\* the business profile (revenue or employees not positive, description
\* blank, state not a state code) has failed with ValidationError and has
\* made no call to the text-generation service.
C22_InvalidProfileRejected ==
    ("pc" \in DOMAIN quote /\ models_PolicyRequest(policy_request) # "ok") =>
        /\ quote.calls = 0
        /\ quote.pc \in {"done", "failed"} => quote.status = "ValidationError"

\* C23: a quote operation that returns has read the clock once, and the
\* timestamp of the quote it returns is the one in the name of its report.
C23_OneIdOneTimestamp ==
    "returned" \in DOMAIN quote =>
        /\ Len(quote.clock) = 1
        /\ quote.returned.report_path = report_path(quote.returned.timestamp)

\* C26: a quote operation calls the text-generation service at most once:
\* once it has asked it has made exactly one call, and an operation that
\* failed on the call or on the reply has ended with that one call made.
C26_OneCallNoRetry ==
    "pc" \in DOMAIN quote =>
        /\ quote.calls <= 1
        /\ quote.calls = Cardinality({i \in DOMAIN quote.steps : quote.steps[i] = "client"})
        /\ quote.pc # "client" => quote.calls = 1
        /\ quote.cause \in {"APIError", "ValueError"} =>
              quote.pc = "failed" /\ quote.calls = 1

C26_Witness ==
    QuoteAt("failed") /\ quote.cause = "ValueError" /\ quote.calls = 1

\* C27: the risk_profile of a quote that is returned is one of low, medium,
\* high.
C27_RiskProfileLabel ==
    "returned" \in DOMAIN quote =>
        quote.returned.risk_profile \in {"low", "medium", "high"}

\* C28: make_decision for a valid profile does not fail, unless the call of
\* the service failed, the reply was not JSON or lacked one of the three
\* keys, or the reports directory could not be written.
C28_MakeDecisionReturns ==
    (/\ QuoteAt("failed")
     /\ quote.op = "make_decision"
     /\ models_PolicyRequest(policy_request) = "ok") =>
        quote.cause \in {"APIError", "ValueError", "KeyError", "OSError"}

\* C30: no report file is written by two quote operations.
C30_ReportsNotShared ==
    \A path \in DOMAIN reports : Len(reports[path]) <= 1

\* how many conditions a rule that applies adds
Count(applies, conditions) == IF applies THEN Len(conditions) ELSE 0

\* C25: the conditions are, in this order, the 4 high-risk conditions iff
\* risk_profile is high, the 3 food-service conditions iff the business type
\* is restaurant or the 3 manufacturing conditions iff it is manufacturing,
\* and the 2 claims-review conditions iff there are claims (labels compared
\* without regard to case); the list has 4*[high] + 3*[restaurant or
\* manufacturing] + 2*[claims] entries.
C25_ConditionsCumulative ==
    (quote.op = "_determine_conditions" /\ quote.status = "ok") =>
        LET conditions == quote.conditions
            high == lower(quote.risk_evaluation.risk_profile) = "high"
            restaurant == lower(policy_request.business_type) = "restaurant"
            manufacturing == lower(policy_request.business_type) = "manufacturing"
            claims == Len(policy_request.claims_history) > 0
            n1 == Count(high, high_risk_conditions)
            n2 == n1 + Count(restaurant, restaurant_conditions)
                     + Count(manufacturing, manufacturing_conditions)
            n3 == n2 + Count(claims, claims_conditions)
        IN  /\ Len(high_risk_conditions) = 4
            /\ Len(restaurant_conditions) = 3
            /\ Len(manufacturing_conditions) = 3
            /\ Len(claims_conditions) = 2
            /\ Len(conditions) = n3
            /\ Len(conditions) = (IF high THEN 4 ELSE 0)
                                    + (IF restaurant \/ manufacturing THEN 3 ELSE 0)
                                    + (IF claims THEN 2 ELSE 0)
            /\ SubSeq(conditions, 1, n1)
                  = (IF high THEN high_risk_conditions ELSE <<>>)
            /\ SubSeq(conditions, n1 + 1, n2)
                  = (IF restaurant THEN restaurant_conditions
                     ELSE IF manufacturing THEN manufacturing_conditions ELSE <<>>)
            /\ SubSeq(conditions, n2 + 1, n3)
                  = (IF claims THEN claims_conditions ELSE <<>>)

C25_Witness ==
    /\ quote.op = "_determine_conditions"
    /\ quote.status = "ok"
    /\ quote.risk_evaluation.risk_profile = "high"
    /\ policy_request.business_type = "manufacturing"
    /\ Len(policy_request.claims_history) = 2
    /\ Len(quote.conditions) = 9

C29_KeyIsIdIsFile ==
    /\ \A k \in DOMAIN documents :
          /\ documents[k].id = k
          /\ k \in DOMAIN files
          /\ files[k] = documents[k]
    /\ _load_documents(files) = {documents}

====
